---------------------------- MODULE Spec2Model ----------------------------
(* NotesSum: the upload route (pages/api/upload.ts), which extracts,      *)
(* indexes and persists an uploaded file, and the Home component          *)
(* (pages/index.tsx), which keeps the tab / unit / note hierarchy, the    *)
(* selection and the per-unit chat transcripts.                           *)
(*                                                                        *)
(* UploadSpec is the upload route serving requests one after the other.   *)
(* Spec is the Home page against the backend store: user events start     *)
(* requests, requests in flight settle in any order, and each settled     *)
(* request's state updates are rendered as one batch followed by the      *)
(* effects of lines 54-74. An async handler reads the state of the render *)
(* it was called from, a functional updater reads the current state.      *)
EXTENDS Integers, Sequences, FiniteSets, TLC

\* ------------------------------------------------------------------ bounds
MaxTextLen == 1      \* longest extracted text
MaxRequests == 2     \* upload requests served
MaxTabs == 3         \* tab ids the store hands out
MaxUnits == 4        \* unit ids the store hands out
MaxInFlight == 2     \* requests of the page in flight at once
MaxOps == 3          \* user events that start something
MaxSearches == 3     \* searches submitted

\* ------------------------------------------------------- program constants
TopK == 5                    \* notes.ts line 87
ChunkSize == 1000
ChunkOverlap == 200
SummaryLen == 200

\* --------------------------------------------------------------- domains
Chars == {" ", "a"}
Null == 0                    \* null: ids are truthy, Null is not
TabIds == 1..MaxTabs
UnitIds == 1..MaxUnits
NoName == ""                 \* originalFilename null / empty
NoUnit == Null               \* no `unit` field in the form
NoMethod == ""               \* no extraction_method in the extract reply
Filenames == {"lecture.pdf", NoName}
UploadUnits == {1, NoUnit}
Methods == {"text", NoMethod}
HttpMethods == {"POST", "GET"}
FetchOutcomes == {"ok", "okNonJson", "fail", "throw"}

RECURSIVE TextsOfLen(_)
TextsOfLen(n) ==
    IF n = 0 THEN {<<>>}
    ELSE {Append(s, c) : s \in TextsOfLen(n - 1), c \in Chars}

Texts == UNION {TextsOfLen(n) : n \in 0..MaxTextLen}

\* a text one character longer than the summary, and a text that starts
\* with white space
LongText == [i \in 1..(SummaryLen + 1) |-> "a"]
PaddedText == <<" ", "a">>

\* the texts the extraction service returns
ExtractTexts == Texts \cup {PaddedText, LongText}

\* the reply to POST /api/extract/: its content type is JSON or not, and its
\* body is not JSON, or a JSON object whose text and extraction_method
\* fields may be missing
ExtractBodies ==
    {[jsonType |-> FALSE, json |-> FALSE, hasText |-> FALSE, text |-> <<>>,
      method |-> NoMethod]}
    \cup {[jsonType |-> c, json |-> TRUE, hasText |-> FALSE, text |-> <<>>,
           method |-> m] : c \in BOOLEAN, m \in Methods}
    \cup {[jsonType |-> c, json |-> TRUE, hasText |-> TRUE, text |-> t,
           method |-> m] : c \in BOOLEAN, t \in ExtractTexts, m \in Methods}

\* ------------------------------------------------------- string helpers
\* String.prototype.trim
RECURSIVE TrimLeft(_)
TrimLeft(s) ==
    IF s = <<>> THEN <<>>
    ELSE IF Head(s) = " " THEN TrimLeft(Tail(s)) ELSE s

RECURSIVE TrimRight(_)
TrimRight(s) ==
    IF s = <<>> THEN <<>>
    ELSE IF s[Len(s)] = " " THEN TrimRight(SubSeq(s, 1, Len(s) - 1)) ELSE s

Trim(s) == TrimRight(TrimLeft(s))

\* the whole string
Substring0_Whole(s, n) == s

\* String.prototype.substring(0, n)
Substring0(s, n) == SubSeq(s, 1, IF Len(s) < n THEN Len(s) ELSE n)

Ellipsis == <<".", ".", ".">>

VARIABLES
    upc,          \* where the upload handler is
    upReq,        \* the request being served
    upExt,        \* responseText / extractionMethod of lines 114-115,
                  \* whether the extract reply had a text field, and
                  \* whether its content type was JSON
    upExtract,    \* how the extraction stage ended
    upSent,       \* the requests this run sent to the backend, in order
    upIdx,        \* how the indexing stage ended
    upNote,       \* how the note-creation stage ended
    upResp,       \* the responses sent for this request, in order
    storeNoteCount,  \* backend: number of notes of each unit
    notesBefore,  \* storeNoteCount when the request arrived
    reqCount,     \* requests received so far
    lastRun       \* the previous request's run

upVars == <<upc, upReq, upExt, upExtract, upSent, upIdx, upNote, upResp,
            storeNoteCount, notesBefore, reqCount, lastRun>>

VARIABLES
    srvTabs,      \* backend: the tabs, in the order GET /api/tabs lists them
    srvUnits,     \* backend: the units, [id, tab], in listing order
    nextTab,      \* backend: the id the next created tab gets
    nextUnit,     \* backend: the id the next created unit gets
    asked,        \* backend: the last body POSTed to /api/summarize/
    tabs,         \* useState tabs (ids)
    activeTab,    \* useState activeTab
    units,        \* useState units ([id, tab])
    activeUnit,   \* useState activeUnit
    notes,        \* useState notes: [unit, count], the notes of one unit
    chatHistory,  \* useState chatHistory: unit id -> lines
    error,        \* useState error
    file,         \* useState file: the file chosen for upload, or none
    loading,      \* useState loading
    crashed,      \* a state updater threw while rendering: the page is gone
    inflight,     \* the requests of the page that have not settled, in order
    ops           \* user events handled so far

storeVars == <<srvTabs, srvUnits, nextTab, nextUnit>>
srvVars == <<storeVars, asked>>
homeVars == <<tabs, activeTab, units, activeUnit, notes, chatHistory, error,
              file, loading, crashed>>
wsVars == <<srvVars, homeVars, inflight, ops>>

VARIABLES
    query,        \* SearchNotes: useState query
    results,      \* SearchNotes: useState results
    searching,    \* SearchNotes: the queries of the searches in flight
    searchSent    \* the queries the search service has been sent, in order

searchVars == <<query, results, searching, searchSent>>

vars == <<upVars, wsVars, searchVars>>

NoReq == [method |-> "", parseErr |-> FALSE, hasFile |-> FALSE,
          filename |-> NoName, unit |-> NoUnit]
NoExt == [text |-> <<>>, method |-> NoMethod, hasText |-> FALSE,
          jsonType |-> FALSE]
NoRun == [req |-> NoReq, ext |-> NoExt, extract |-> "none", idx |-> "none",
          note |-> "none", resp |-> <<>>]

\* ------------------------------------------------------------ responses
FailResponse(status, message) ==
    [status |-> status, success |-> FALSE, error |-> message]

\* lines 179-187
SuccessResponse(text, filename, unitId, method) ==
    [status |-> 200, success |-> TRUE,
     data |-> [text |-> text, filename |-> filename, unitId |-> unitId,
               extraction_method |-> method]]

\* the text is indexed without its surrounding white space
IngestRequest_Trimmed(text, unitId) ==
    [kind |-> "ingest", text |-> Trim(text), category |-> unitId,
     chunk_size |-> ChunkSize, chunk_overlap |-> ChunkOverlap]

\* lines 124-135
IngestRequest(text, unitId) ==
    [kind |-> "ingest", text |-> text, category |-> unitId,
     chunk_size |-> ChunkSize, chunk_overlap |-> ChunkOverlap]

\* the note is tagged with the default method, not the extracted one
NoteRequest_DefaultMethod(unitId, filename, text, method) ==
    [kind |-> "note", unit |-> unitId,
     title |-> IF filename # NoName THEN filename ELSE "Uploaded Document",
     content |-> text,
     summary |-> Substring0(text, SummaryLen) \o <<".", ".", ".">>,
     file |-> IF filename # NoName THEN filename ELSE "document.pdf",
     extraction_method |-> "OCR"]

\* lines 154-167
NoteRequest(unitId, filename, text, method) ==
    [kind |-> "note", unit |-> unitId,
     title |-> IF filename # NoName THEN filename ELSE "Uploaded Document",
     content |-> text,
     summary |-> Substring0(text, SummaryLen) \o Ellipsis,
     file |-> IF filename # NoName THEN filename ELSE "document.pdf",
     extraction_method |-> method]

Respond(r) == upResp' = Append(upResp, r) /\ upc' = "done"

\* ------------------------------------------------------------- Init
\* the store when the page is opened: two tabs, tab 1 with units 1 and 2,
\* tab 2 with unit 3, one note in each unit
InitTabs == <<1, 2>>
InitUnits == <<[id |-> 1, tab |-> 1], [id |-> 2, tab |-> 1],
               [id |-> 3, tab |-> 2]>>
InitNoteCount ==
    [u \in UnitIds |-> IF \E i \in 1..Len(InitUnits) : InitUnits[i].id = u
                       THEN 1 ELSE 0]

UploadStart ==
    /\ upc = "idle"
    /\ upReq = NoReq
    /\ upExt = NoExt
    /\ upExtract = "none"
    /\ upSent = <<>>
    /\ upIdx = "none"
    /\ upNote = "none"
    /\ upResp = <<>>
    /\ storeNoteCount = InitNoteCount
    /\ notesBefore = InitNoteCount
    /\ reqCount = 0
    /\ lastRun = NoRun

\* -------------------------------------------------- requests of the page
NoError == ""
NoFile == "none"
Files == {NoFile, "pdf"}
NoNotes == [unit |-> Null, count |-> 0]
NoChat == [u \in {} |-> <<>>]
Answers == {"ans", ""}       \* the answer field of the chat reply, or none
Statuses == {"ok", "fail", "throw"}   \* 2xx, non-2xx, fetch rejected

\* what an async handler keeps of the render it was called from
NoClosure == [activeTab |-> Null, activeUnit |-> Null, tabs |-> <<>>,
              units |-> <<>>, chat |-> <<>>, msg |-> <<>>]
NoReply == [status |-> "none", tabs |-> <<>>, units |-> <<>>, id |-> Null,
            count |-> 0, answer |-> ""]
NoQuestion == [question |-> <<>>, namespace |-> Null, top_k |-> 0]
Request(kind, arg, closure) ==
    [kind |-> kind, arg |-> arg, c |-> closure]

\* lines 76-89: fetchTabs reads activeTab of the render it was created in
FetchTabsReq(cTab) ==
    Request("fetchTabs", Null, [NoClosure EXCEPT !.activeTab = cTab])
\* lines 91-109: fetchUnits reads activeUnit of the render it was created in
FetchUnitsReq(tabId, cUnit) ==
    Request("fetchUnits", tabId, [NoClosure EXCEPT !.activeUnit = cUnit])
\* lines 111-121
FetchNotesReq(unitId) == Request("fetchNotes", unitId, NoClosure)

\* lines 35-53 and 76: the first render; the mount effect has called fetchTabs
HomeStart ==
    /\ srvTabs = InitTabs
    /\ srvUnits = InitUnits
    /\ nextTab = Len(InitTabs) + 1
    /\ nextUnit = Len(InitUnits) + 1
    /\ asked = NoQuestion
    /\ tabs = <<>>
    /\ activeTab = Null
    /\ units = <<>>
    /\ activeUnit = Null
    /\ notes = NoNotes
    /\ chatHistory = NoChat
    /\ error = NoError
    /\ file = NoFile
    /\ loading = FALSE
    /\ crashed = FALSE
    /\ inflight = <<FetchTabsReq(Null)>>
    /\ ops = 0

\* part_000 lines 4-5
SearchStart ==
    /\ query = <<>>
    /\ results = <<>>
    /\ searching = <<>>
    /\ searchSent = <<>>

Init == UploadStart /\ HomeStart /\ SearchStart

\* ------------------------------------------------------------- actions
\* lines 12-26: a request arrives; anything but POST is answered 405
Receive ==
    /\ upc \in {"idle", "done"}
    /\ reqCount < MaxRequests
    /\ \E m \in HttpMethods :
        /\ upReq' = [NoReq EXCEPT !.method = m]
        /\ IF m # "POST"
           THEN /\ upResp' = <<FailResponse(405, "Only POST allowed")>>
                /\ upc' = "done"
           ELSE /\ upResp' = <<>>
                /\ upc' = "parsing"
    /\ lastRun' = IF upc = "done"
                  THEN [req |-> upReq, ext |-> upExt, extract |-> upExtract,
                        idx |-> upIdx, note |-> upNote, resp |-> upResp]
                  ELSE lastRun
    /\ reqCount' = reqCount + 1
    /\ notesBefore' = storeNoteCount
    /\ upExt' = NoExt
    /\ upExtract' = "none"
    /\ upSent' = <<>>
    /\ upIdx' = "none"
    /\ upNote' = "none"
    /\ UNCHANGED storeNoteCount
    /\ UNCHANGED <<wsVars, searchVars>>

\* no answer yet: the handler goes on
NoResponse == FailResponse(0, "")

\* a form without unit id is let through
FormResponse_UnitUnchecked(err, hasFile, unit) ==
    IF err THEN FailResponse(500, "Form parse error")
    ELSE IF ~hasFile THEN FailResponse(400, "No file uploaded")
    ELSE NoResponse

\* lines 34-57: what the form.parse callback answers before it reads the
\* file: a parse error, a missing file and a missing unit id are answered
\* at once, in this order
FormResponse(err, hasFile, unit) ==
    IF err THEN FailResponse(500, "Form parse error")
    ELSE IF ~hasFile THEN FailResponse(400, "No file uploaded")
    ELSE IF unit = NoUnit THEN FailResponse(400, "Unit ID is required")
    ELSE NoResponse

\* lines 26-60: the form.parse callback up to the await of fs.readFile
ParseCallback ==
    /\ upc = "parsing"
    /\ \E err \in BOOLEAN, hasFile \in BOOLEAN, fn \in Filenames,
          unit \in UploadUnits :
        /\ ~hasFile => fn = NoName
        /\ err => (~hasFile /\ unit = NoUnit)
        /\ upReq' = [upReq EXCEPT !.parseErr = err, !.hasFile = hasFile,
                                  !.filename = fn, !.unit = unit]
        /\ IF FormResponse(err, hasFile, unit) # NoResponse
           THEN Respond(FormResponse(err, hasFile, unit))
           ELSE upc' = "reading" /\ UNCHANGED upResp
    /\ UNCHANGED <<upExt, upExtract, upSent, upIdx, upNote, storeNoteCount,
                   notesBefore, reqCount, lastRun>>
    /\ UNCHANGED <<wsVars, searchVars>>

\* lines 60-70: fs.readFile settles; on success the connectivity probe is sent
ReadDone ==
    /\ upc = "reading"
    /\ \E ok \in BOOLEAN :
        IF ok
        THEN /\ upSent' = Append(upSent, [kind |-> "probe"])
             /\ upc' = "probing"
             /\ UNCHANGED upResp
        ELSE /\ Respond(FailResponse(500, "Failed to process file"))
             /\ UNCHANGED upSent
    /\ UNCHANGED <<upReq, upExt, upExtract, upIdx, upNote, storeNoteCount,
                   notesBefore, reqCount, lastRun>>
    /\ UNCHANGED <<wsVars, searchVars>>

\* the catch of the probe answers and does not return
ProbeDone_NoReturn ==
    /\ upc = "probing"
    /\ \E ok \in BOOLEAN :
        /\ upResp' = IF ok THEN upResp
                     ELSE Append(upResp,
                                 FailResponse(500, "Cannot connect to backend"))
        /\ upSent' = Append(upSent, [kind |-> "extract"])
        /\ upc' = "extracting"
    /\ UNCHANGED <<upReq, upExt, upExtract, upIdx, upNote, storeNoteCount,
                   notesBefore, reqCount, lastRun>>
    /\ UNCHANGED <<wsVars, searchVars>>

\* lines 70-97: the probe settles; any status goes on to the extract POST
ProbeDone ==
    /\ upc = "probing"
    /\ \E ok \in BOOLEAN :
        IF ok
        THEN /\ upSent' = Append(upSent, [kind |-> "extract"])
             /\ upc' = "extracting"
             /\ UNCHANGED <<upResp, upExtract>>
        ELSE /\ Respond(FailResponse(500, "Cannot connect to backend"))
             /\ upExtract' = "unreachable"
             /\ UNCHANGED upSent
    /\ UNCHANGED <<upReq, upExt, upIdx, upNote, storeNoteCount,
                   notesBefore, reqCount, lastRun>>
    /\ UNCHANGED <<wsVars, searchVars>>

\* lines 94-106: how the extract POST ended: the fetch rejected,
\* upstreamRes.json() threw, the status was not 2xx, or none of these
ExtractOutcome(thrown, ok, body) ==
    IF thrown THEN "unreachable"
    ELSE IF ~body.json THEN "unparsable"
    ELSE IF ~ok THEN "status"
    ELSE "ok"

\* a non-2xx extract reply is not checked
ExtractAborts_StatusUnchecked(outcome) ==
    outcome \in {"unreachable", "unparsable"}

\* lines 103-112 and 188-193: the outcomes on which the handler answers at
\* once: the outer catch, and the !upstreamRes.ok return
ExtractAborts(outcome) == outcome # "ok"

\* lines 108-111 and 190-192
ExtractFailure(outcome) ==
    IF outcome = "status" THEN FailResponse(502, "Backend error")
    ELSE FailResponse(500, "Failed to process file")

\* lines 114-115
ResponseText(body) == IF body.hasText THEN body.text ELSE <<>>
ExtractionMethod(body) == IF body.method # NoMethod THEN body.method ELSE "OCR"

\* the note POST is sent along with the ingest POST, not after it has ended
AfterExtract_Together(text, method) ==
    IF Trim(text) # <<>>
    THEN <<IngestRequest(text, upReq.unit),
           NoteRequest(upReq.unit, upReq.filename, text, method)>>
    ELSE <<NoteRequest(upReq.unit, upReq.filename, text, method)>>

\* lines 119-167: what the handler sends once the extraction has succeeded:
\* the ingest POST, awaited, when the text is not blank, else the note POST
AfterExtract(text, method) ==
    IF Trim(text) # <<>>
    THEN <<IngestRequest(text, upReq.unit)>>
    ELSE <<NoteRequest(upReq.unit, upReq.filename, text, method)>>

\* lines 94-135, 146-167 and 188-193: the extract POST settles
ExtractDone ==
    /\ upc = "extracting"
    /\ \E thrown \in BOOLEAN, ok \in BOOLEAN, body \in ExtractBodies :
        /\ thrown => (~ok /\ ~body.json /\ body.method = NoMethod)
        /\ upExtract' = ExtractOutcome(thrown, ok, body)
        /\ IF ExtractAborts(ExtractOutcome(thrown, ok, body))
           THEN /\ Respond(ExtractFailure(ExtractOutcome(thrown, ok, body)))
                /\ UNCHANGED <<upExt, upSent, upIdx>>
           ELSE /\ upExt' = [text |-> ResponseText(body),
                             method |-> ExtractionMethod(body),
                             hasText |-> body.hasText,
                             jsonType |-> body.jsonType]
                /\ UNCHANGED upResp
                /\ upSent' = upSent \o AfterExtract(ResponseText(body),
                                                     ExtractionMethod(body))
                /\ IF Trim(ResponseText(body)) # <<>>
                   THEN upIdx' = "none" /\ upc' = "indexing"
                   ELSE upIdx' = "skipped" /\ upc' = "persisting"
    /\ UNCHANGED <<upReq, upNote, storeNoteCount, notesBefore, reqCount,
                   lastRun>>
    /\ UNCHANGED <<wsVars, searchVars>>

\* the note is created only when indexing succeeded
AfterIndex_OnlyOnSuccess(o) ==
    IF o \in {"ok", "okNonJson"}
    THEN <<[kind |-> "note", unit |-> upReq.unit,
            title |-> upReq.filename, content |-> upExt.text,
            summary |-> upExt.text, file |-> upReq.filename,
            extraction_method |-> upExt.method]>>
    ELSE <<>>

\* a failed ingest POST is sent a second time
AfterIndex_RetryIngest(o) ==
    IF o \in {"ok", "okNonJson"}
    THEN <<NoteRequest(upReq.unit, upReq.filename, upExt.text, upExt.method)>>
    ELSE <<IngestRequest(upExt.text, upReq.unit),
           NoteRequest(upReq.unit, upReq.filename, upExt.text, upExt.method)>>

\* lines 137-167: what the handler sends once the ingest POST has ended with
\* outcome o: the note POST, whatever o is
AfterIndex(o) ==
    <<NoteRequest(upReq.unit, upReq.filename, upExt.text, upExt.method)>>

\* lines 137-167: the ingest POST settles
IndexDone ==
    /\ upc = "indexing"
    /\ \E o \in FetchOutcomes :
        /\ upIdx' = o
        /\ upSent' = upSent \o AfterIndex(o)
    /\ upc' = "persisting"
    /\ UNCHANGED <<upReq, upExt, upExtract, upNote, upResp, storeNoteCount,
                   notesBefore, reqCount, lastRun>>
    /\ UNCHANGED <<wsVars, searchVars>>

\* a failed note POST fails the upload
AfterNote_FailOnError(o) ==
    IF o \in {"ok", "okNonJson"}
    THEN [status |-> 200, success |-> TRUE,
          data |-> [text |-> upExt.text, filename |-> upReq.filename,
                    unitId |-> upReq.unit, extraction_method |-> upExt.method]]
    ELSE [status |-> 500, success |-> FALSE, error |-> "Note creation failed"]

\* lines 169-187: what the handler answers once the note POST has ended with
\* outcome o: 200 and success, whatever o is
AfterNote(o) ==
    SuccessResponse(upExt.text, upReq.filename, upReq.unit, upExt.method)

\* the backend's note store: a 2xx reply to POST /api/notes/ is a note created
StoreAddNote(count, unit, o) ==
    IF o \in {"ok", "okNonJson"} THEN [count EXCEPT ![unit] = @ + 1] ELSE count

\* lines 169-187: the note POST settles; the handler answers
NoteDone ==
    /\ upc = "persisting"
    /\ \E o \in FetchOutcomes :
        /\ upNote' = o
        /\ storeNoteCount' = StoreAddNote(storeNoteCount, upReq.unit, o)
        /\ Respond(AfterNote(o))
    /\ UNCHANGED <<upReq, upExt, upExtract, upSent, upIdx, notesBefore,
                   reqCount, lastRun>>
    /\ UNCHANGED <<wsVars, searchVars>>

UploadNext ==
    \/ Receive
    \/ ParseCallback
    \/ ReadDone
    \/ ProbeDone
    \/ ExtractDone
    \/ IndexDone
    \/ NoteDone

UploadSpec == Init /\ [][UploadNext]_vars

\* the form parser calls its callback, and every await of the callback
\* (fs.readFile, the four fetches) settles: it returns or it fails
UploadFairSpec ==
    /\ Init
    /\ [][UploadNext]_vars
    /\ WF_vars(ParseCallback)
    /\ WF_vars(ReadDone)
    /\ WF_vars(ProbeDone)
    /\ WF_vars(ExtractDone)
    /\ WF_vars(IndexDone)
    /\ WF_vars(NoteDone)

\* ------------------------------------------------------ the Home page
Ids(seq) == {seq[i].id : i \in 1..Len(seq)}
Elems(seq) == {seq[i] : i \in 1..Len(seq)}
Without(seq, x) == SelectSeq(seq, LAMBDA e : e # x)
WithoutId(seq, x) == SelectSeq(seq, LAMBDA e : e.id # x)
RemoveAt(seq, i) == SubSeq(seq, 1, i - 1) \o SubSeq(seq, i + 1, Len(seq))
Put(chat, u, lines) ==
    [k \in DOMAIN chat \cup {u} |-> IF k = u THEN lines ELSE chat[k]]
Drop(chat, U) == [k \in DOMAIN chat \ U |-> chat[k]]

UserLine(m) == <<"You", m>>
AiLine(a) == <<"AI", IF a # "" THEN a ELSE "No response received">>

\* the state of the render an event handler or effect runs in
Current ==
    [tabs |-> tabs, activeTab |-> activeTab, units |-> units,
     activeUnit |-> activeUnit, notes |-> notes, chatHistory |-> chatHistory,
     error |-> error, file |-> file, loading |-> loading]

\* the activeUnit effect without its fetchNotes call
EffectRequests_NoNotesReload(old, new) ==
    IF new.activeTab # old.activeTab /\ new.activeTab # Null
    THEN <<FetchUnitsReq(new.activeTab, new.activeUnit)>> ELSE <<>>

\* lines 54-69: the requests the effects of the render `new` start, `old`
\* being the render before it
EffectRequests(old, new) ==
    (IF new.activeTab # old.activeTab /\ new.activeTab # Null
     THEN <<FetchUnitsReq(new.activeTab, new.activeUnit)>> ELSE <<>>)
    \o (IF new.activeUnit # old.activeUnit /\ new.activeUnit # Null
        THEN <<FetchNotesReq(new.activeUnit)>> ELSE <<>>)

\* the transcript effect without its test for an existing transcript
LazyTranscript_Always(chat, unit) ==
    IF unit # Null THEN Put(chat, unit, <<>>) ELSE chat

\* lines 70-74: the transcript effect of a render
LazyTranscript(chat, unit) ==
    IF unit # Null /\ unit \notin DOMAIN chat THEN Put(chat, unit, <<>>)
    ELSE chat

\* lines 54-74: the state once the effects of the render `new` have run and
\* the renders they cause have settled
AfterEffects(old, new) ==
    LET tabCleared == new.activeTab # old.activeTab /\ new.activeTab = Null
        unitChanged == new.activeUnit # old.activeUnit
        finalUnit == IF tabCleared THEN Null ELSE new.activeUnit
    IN  [new EXCEPT
            !.units = IF tabCleared THEN <<>> ELSE @,
            !.activeUnit = finalUnit,
            !.notes = IF unitChanged \/ finalUnit # new.activeUnit
                      THEN NoNotes ELSE @,
            !.chatHistory =
                IF unitChanged \/ new.chatHistory # old.chatHistory
                THEN LazyTranscript(@, new.activeUnit) ELSE @]

SetHome(h) ==
    /\ tabs' = h.tabs
    /\ activeTab' = h.activeTab
    /\ units' = h.units
    /\ activeUnit' = h.activeUnit
    /\ notes' = h.notes
    /\ chatHistory' = h.chatHistory
    /\ error' = h.error
    /\ file' = h.file
    /\ loading' = h.loading

\* one batch of state updates is rendered and its effects run; `rest` is the
\* requests still in flight and `started` the ones the handler itself started
Render(new, rest, started) ==
    /\ SetHome(AfterEffects(Current, new))
    /\ inflight' = rest \o started \o EffectRequests(Current, new)
    /\ UNCHANGED crashed

\* a state updater threw while rendering: React unmounts the page
Crash(rest) ==
    /\ crashed' = TRUE
    /\ tabs' = <<>>
    /\ activeTab' = Null
    /\ units' = <<>>
    /\ activeUnit' = Null
    /\ notes' = NoNotes
    /\ chatHistory' = NoChat
    /\ error' = NoError
    /\ file' = NoFile
    /\ loading' = FALSE
    /\ inflight' = <<>>

CanStart == ~crashed /\ Len(inflight) < MaxInFlight /\ ops < MaxOps
Counted == ops' = ops + 1

\* ---------------------------------------------------------- user events
\* only the empty text is rejected
Blank_EmptyOnly(text) == text = <<>>

\* lines 124, 150 and 316: !text.trim()
Blank(text) == Trim(text) = <<>>

\* line 502: a tab of the list is clicked
SelectTab(t) ==
    /\ CanStart
    /\ t \in Elems(tabs)
    /\ t # activeTab
    /\ Counted
    /\ Render([Current EXCEPT !.activeTab = t], inflight, <<>>)
    /\ UNCHANGED <<srvVars, upVars, searchVars>>

\* line 691: a unit of the list is clicked
SelectUnit(u) ==
    /\ CanStart
    /\ activeTab # Null
    /\ u \in Ids(units)
    /\ u # activeUnit
    /\ Counted
    /\ Render([Current EXCEPT !.activeUnit = u], inflight, <<>>)
    /\ UNCHANGED <<srvVars, upVars, searchVars>>

\* line 564: the refresh button
RefreshUnits ==
    /\ CanStart
    /\ activeTab # Null
    /\ Counted
    /\ Render(Current, inflight, <<FetchUnitsReq(activeTab, activeUnit)>>)
    /\ UNCHANGED <<srvVars, upVars, searchVars>>

\* lines 123-131: createTab up to the fetch
CreateTab(name) ==
    /\ CanStart
    /\ IF Blank(name)
       THEN UNCHANGED <<homeVars, inflight, ops>>
       ELSE /\ Counted
            /\ Render(Current, inflight,
                      <<Request("createTab", Null, NoClosure)>>)
    /\ UNCHANGED <<srvVars, upVars, searchVars>>

\* lines 149-161: createUnit up to the fetch; the form that calls it is
\* rendered under a tab only (line 541) and the handler tests activeTab itself
CreateUnit(name) ==
    /\ CanStart
    /\ IF Blank(name) \/ activeTab = Null
       THEN UNCHANGED <<homeVars, inflight, ops>>
       ELSE /\ Counted
            /\ Render(Current, inflight,
                      <<Request("createUnit", activeTab, NoClosure)>>)
    /\ UNCHANGED <<srvVars, upVars, searchVars>>

\* lines 189-198: deleteTab up to the fetch
DeleteTab(t, confirmed) ==
    /\ CanStart
    /\ t \in Elems(tabs)
    /\ IF ~confirmed
       THEN UNCHANGED <<homeVars, inflight, ops>>
       ELSE /\ Counted
            /\ Render(Current, inflight,
                      <<Request("deleteTab", t,
                                [NoClosure EXCEPT !.activeTab = activeTab,
                                                  !.tabs = tabs,
                                                  !.units = units])>>)
    /\ UNCHANGED <<srvVars, upVars, searchVars>>

\* lines 230-239: deleteUnit up to the fetch
DeleteUnit(u, confirmed) ==
    /\ CanStart
    /\ activeTab # Null
    /\ u \in Ids(units)
    /\ IF ~confirmed
       THEN UNCHANGED <<homeVars, inflight, ops>>
       ELSE /\ Counted
            /\ Render(Current, inflight,
                      <<Request("deleteUnit", u,
                                [NoClosure EXCEPT !.activeTab = activeTab,
                                                  !.activeUnit = activeUnit,
                                                  !.units = units])>>)
    /\ UNCHANGED <<srvVars, upVars, searchVars>>

\* line 318
CurrentChat(chat, unit) == IF unit \in DOMAIN chat THEN chat[unit] ELSE <<>>

\* lines 310-330: handleSend up to the fetch
HandleSend(m) ==
    /\ CanStart
    /\ activeTab # Null
    /\ IF activeUnit = Null
       THEN /\ Counted
            /\ Render([Current EXCEPT !.error = "Please select a unit first"],
                      inflight, <<>>)
       ELSE IF Blank(m)
       THEN UNCHANGED <<homeVars, inflight, ops>>
       ELSE /\ Counted
            /\ Render([Current EXCEPT !.chatHistory =
                          Put(@, activeUnit,
                              Append(CurrentChat(chatHistory, activeUnit),
                                     UserLine(m)))],
                      inflight,
                      <<Request("chat", activeUnit,
                                [NoClosure EXCEPT
                                    !.activeUnit = activeUnit,
                                    !.chat = CurrentChat(chatHistory, activeUnit),
                                    !.msg = m])>>)
    /\ UNCHANGED <<srvVars, upVars, searchVars>>

\* -------------------------------------------------------- the backend
\* GET /api/units?tab=
UnitsOfTab(t) == SelectSeq(srvUnits, LAMBDA e : e.tab = t)
\* GET /api/notes?unit=
NotesOfUnit(u) ==
    IF u \in Ids(srvUnits) /\ storeNoteCount[u] > 0
    THEN [unit |-> u, count |-> storeNoteCount[u]] ELSE NoNotes

\* index.tsx lines 326-330: the body handleSend posts to /api/chat
ChatBody(r) == [message |-> r.c.msg, documentCategory |-> r.arg]

\* the chat route forwards no namespace
ChatRoute_NoNamespace(body) ==
    [question |-> body.message, namespace |-> Null, top_k |-> TopK]

\* notes.ts lines 77-89: the body the chat route posts to /api/summarize/
ChatRoute(body) ==
    [question |-> body.message, namespace |-> body.documentCategory,
     top_k |-> TopK]

\* notes.ts lines 59-65: the chat route answers 400 to a missing message
ChatRouteAccepts(body) == body.message # <<>>

\* whether the store accepts the request
StoreAccepts(r) ==
    CASE r.kind = "createTab" -> nextTab <= MaxTabs
      [] r.kind = "createUnit" -> nextUnit <= MaxUnits /\ r.arg \in Elems(srvTabs)
      [] r.kind = "deleteTab" -> r.arg \in Elems(srvTabs)
      [] r.kind = "deleteUnit" -> r.arg \in Ids(srvUnits)
      [] r.kind = "chat" -> ChatRouteAccepts(ChatBody(r))
      [] OTHER -> TRUE

\* the reply to an accepted request
StoreReply(r, answer) ==
    [NoReply EXCEPT
        !.status = "ok",
        !.tabs = IF r.kind = "fetchTabs" THEN srvTabs ELSE <<>>,
        !.units = IF r.kind = "fetchUnits" THEN UnitsOfTab(r.arg) ELSE <<>>,
        !.count = IF r.kind \in {"fetchNotes", "uploadNotes"}
                  THEN NotesOfUnit(r.arg).count ELSE 0,
        !.id = CASE r.kind = "createTab" -> nextTab
                 [] r.kind = "createUnit" -> nextUnit
                 [] OTHER -> Null,
        !.answer = IF r.kind = "chat" THEN answer ELSE ""]

\* what an accepted request does to the store; deleting a tab deletes its units
StoreUpdate(r) ==
    /\ srvTabs' = CASE r.kind = "createTab" -> Append(srvTabs, nextTab)
                    [] r.kind = "deleteTab" -> Without(srvTabs, r.arg)
                    [] OTHER -> srvTabs
    /\ srvUnits' =
          CASE r.kind = "createUnit" ->
                   Append(srvUnits, [id |-> nextUnit, tab |-> r.arg])
            [] r.kind = "deleteTab" ->
                   SelectSeq(srvUnits, LAMBDA e : e.tab # r.arg)
            [] r.kind = "deleteUnit" -> WithoutId(srvUnits, r.arg)
            [] OTHER -> srvUnits
    /\ nextTab' = IF r.kind = "createTab" THEN nextTab + 1 ELSE nextTab
    /\ nextUnit' = IF r.kind = "createUnit" THEN nextUnit + 1 ELSE nextUnit

\* the backend's part of a request that ends with status st: the store changes
\* only when the request is accepted
Backend(r, st) ==
    /\ st = "ok" => StoreAccepts(r)
    /\ IF st = "ok" THEN StoreUpdate(r) ELSE UNCHANGED storeVars
    /\ asked' = IF r.kind = "chat" /\ st # "throw" /\ ChatRouteAccepts(ChatBody(r))
                THEN ChatRoute(ChatBody(r)) ELSE asked

\* the reply the page gets
Reply(r, st, answer) ==
    IF st = "ok" THEN StoreReply(r, answer) ELSE [NoReply EXCEPT !.status = st]

\* ------------------------------------------------- replies reach the page
\* The request in slot i, of the given kind, is served by the backend and its
\* reply is handled by the page; requests in flight settle in any order.
Settles(i, kind, st) ==
    /\ i \in 1..Len(inflight)
    /\ inflight[i].kind = kind
    /\ Backend(inflight[i], st)

\* lines 79-85
FetchTabsReply(i, st) ==
    /\ Settles(i, "fetchTabs", st)
    /\ LET r == inflight[i]
           reply == Reply(r, st, "")
           data == reply.tabs
       IN  Render(IF reply.status # "ok" THEN Current
                  ELSE [Current EXCEPT
                           !.tabs = data,
                           !.activeTab = IF Len(data) > 0 /\ r.c.activeTab = Null
                                         THEN data[1] ELSE @],
                  RemoveAt(inflight, i), <<>>)
    /\ UNCHANGED <<upVars, searchVars, ops>>

\* lines 94-102: the unit a fetchUnits reply makes active; cUnit is the
\* activeUnit fetchUnits closed over
UnitAfterFetch(data, cUnit, unit) ==
    IF Len(data) > 0 /\ cUnit = Null THEN data[1].id
    ELSE IF Len(data) = 0 THEN Null
    ELSE unit

\* lines 94-108
FetchUnitsReply(i, st) ==
    /\ Settles(i, "fetchUnits", st)
    /\ LET r == inflight[i]
           reply == Reply(r, st, "")
           data == reply.units
       IN  Render(IF reply.status # "ok" THEN Current
                  ELSE [Current EXCEPT
                           !.units = data,
                           !.activeUnit = UnitAfterFetch(data, r.c.activeUnit, @),
                           !.notes = IF Len(data) = 0 THEN NoNotes ELSE @],
                  RemoveAt(inflight, i), <<>>)
    /\ UNCHANGED <<upVars, searchVars, ops>>

\* lines 114-120
FetchNotesReply(i, st) ==
    /\ Settles(i, "fetchNotes", st)
    /\ LET r == inflight[i]
           reply == Reply(r, st, "")
       IN  Render(IF reply.status # "ok" THEN Current
                  ELSE [Current EXCEPT
                           !.notes = IF reply.count > 0
                                     THEN [unit |-> r.arg,
                                           count |-> reply.count]
                                     ELSE NoNotes],
                  RemoveAt(inflight, i), <<>>)
    /\ UNCHANGED <<upVars, searchVars, ops>>

\* the reply's status is not looked at
ResOk_Always(reply) == TRUE

\* lines 133, 163 and 200: if (res.ok), in createTab, createUnit, deleteTab
ResOk(reply) == reply.status = "ok"

\* the new tab is appended and selected, the unit state is kept
WithNewTab_KeepUnits(h, newTab) ==
    [h EXCEPT !.tabs = Append(@, newTab),
              !.activeTab = newTab]

\* lines 133-139: the page state with the tab createTab was returned
WithNewTab(h, newTab) ==
    [h EXCEPT !.tabs = Append(@, newTab),
              !.activeTab = newTab,
              !.units = <<>>,
              !.activeUnit = Null,
              !.notes = NoNotes]

\* lines 133-146
CreateTabReply(i, st) ==
    /\ Settles(i, "createTab", st)
    /\ LET r == inflight[i]
           reply == Reply(r, st, "")
       IN  Render(IF ~ResOk(reply) THEN Current
                  ELSE WithNewTab(Current, reply.id),
                  RemoveAt(inflight, i), <<>>)
    /\ UNCHANGED <<upVars, searchVars, ops>>

\* the new unit is appended and not selected
WithNewUnit_NotSelected(h, newUnit) ==
    [h EXCEPT !.units = Append(@, newUnit),
              !.chatHistory = Put(@, newUnit.id, <<>>)]

\* lines 163-167: the page state with the unit createUnit was returned
WithNewUnit(h, newUnit) ==
    [h EXCEPT !.units = Append(@, newUnit),
              !.activeUnit = newUnit.id,
              !.chatHistory = Put(@, newUnit.id, <<>>)]

\* lines 163-186
CreateUnitReply(i, st) ==
    /\ Settles(i, "createUnit", st)
    /\ LET r == inflight[i]
           reply == Reply(r, st, "")
       IN  Render(IF ~ResOk(reply) THEN Current
                  ELSE WithNewUnit(Current, [id |-> reply.id, tab |-> r.arg]),
                  RemoveAt(inflight, i), <<>>)
    /\ UNCHANGED <<upVars, searchVars, ops>>

\* lines 203-211: the transcripts deleteTab removes; cUnits is the unit list
\* deleteTab closed over
CascadeUnits(cUnits, tabId) ==
    {cUnits[k].id : k \in {j \in 1..Len(cUnits) : cUnits[j].tab = tabId}}

\* lines 213-223: the selection after deleteTab; cTab and cTabs are the
\* activeTab and the tab list deleteTab closed over
AfterDeleteTab(h, tabId, cTab, cTabs) ==
    IF cTab # tabId THEN h
    ELSE IF Len(Without(cTabs, tabId)) > 0
    THEN [h EXCEPT !.activeTab = Without(cTabs, tabId)[1]]
    ELSE [h EXCEPT !.activeTab = Null, !.units = <<>>, !.activeUnit = Null,
                   !.notes = NoNotes]

\* lines 200-227
DeleteTabReply(i, st) ==
    /\ Settles(i, "deleteTab", st)
    /\ LET r == inflight[i]
           reply == Reply(r, st, "")
       IN  Render(IF ~ResOk(reply) THEN Current
                  ELSE AfterDeleteTab(
                           [Current EXCEPT
                               !.tabs = Without(@, r.arg),
                               !.chatHistory =
                                   Drop(@, CascadeUnits(r.c.units, r.arg))],
                           r.arg, r.c.activeTab, r.c.tabs),
                  RemoveAt(inflight, i), <<>>)
    /\ UNCHANGED <<upVars, searchVars, ops>>

\* deleteUnit reselects whichever unit was removed
AfterDeleteUnit_AlwaysReselect(h, unitId, cUnit, cUnits) ==
    IF Len(WithoutId(cUnits, unitId)) > 0
    THEN [h EXCEPT !.activeUnit = WithoutId(cUnits, unitId)[1].id]
    ELSE [h EXCEPT !.activeUnit = Null, !.notes = NoNotes]

\* lines 250-258: the selection after deleteUnit; cUnit and cUnits are the
\* activeUnit and the unit list deleteUnit closed over
AfterDeleteUnit(h, unitId, cUnit, cUnits) ==
    IF cUnit # unitId THEN h
    ELSE IF Len(WithoutId(cUnits, unitId)) > 0
    THEN [h EXCEPT !.activeUnit = WithoutId(cUnits, unitId)[1].id]
    ELSE [h EXCEPT !.activeUnit = Null, !.notes = NoNotes]

\* lines 241-273
DeleteUnitReply(i, st) ==
    /\ Settles(i, "deleteUnit", st)
    /\ LET r == inflight[i]
           reply == Reply(r, st, "")
       IN  CASE reply.status = "ok" ->
                   Render(AfterDeleteUnit(
                              [Current EXCEPT
                                  !.units = WithoutId(@, r.arg),
                                  !.chatHistory = Drop(@, {r.arg})],
                              r.arg, r.c.activeUnit, r.c.units),
                          RemoveAt(inflight, i), <<>>)
             [] reply.status = "fail" ->
                   Render(Current, RemoveAt(inflight, i),
                          IF r.c.activeTab # Null
                          THEN <<FetchUnitsReq(r.c.activeTab, r.c.activeUnit)>>
                          ELSE <<>>)
             [] OTHER -> Render(Current, RemoveAt(inflight, i), <<>>)
    /\ UNCHANGED <<upVars, searchVars, ops>>

\* the optimistic line is left in place
Rollback_Keep(lines) == lines

\* lines 338 and 351: prev[activeUnit].slice(0, -1)
Rollback(lines) == SubSeq(lines, 1, Len(lines) - 1)

\* the answer is put in front of the transcript
WithAnswer_InFront(lines, answer) == <<AiLine(answer)>> \o lines

\* lines 341-345: [...(prev[activeUnit] || []), `AI: ${aiResponse}`]
WithAnswer(lines, answer) == Append(lines, AiLine(answer))

\* lines 332-353
ChatReply(i, st, answer) ==
    /\ Settles(i, "chat", st)
    /\ st # "ok" => answer = ""
    /\ LET r == inflight[i]
           reply == Reply(r, st, answer)
       IN  IF reply.status = "ok"
           THEN Render([Current EXCEPT !.chatHistory =
                           Put(@, r.arg,
                               WithAnswer(CurrentChat(@, r.arg),
                                          reply.answer))],
                       RemoveAt(inflight, i), <<>>)
           ELSE IF r.arg \notin DOMAIN chatHistory
           THEN Crash(RemoveAt(inflight, i))
           ELSE Render([Current EXCEPT
                           !.error = "Chat failed",
                           !.chatHistory = Put(@, r.arg, Rollback(@[r.arg]))],
                       RemoveAt(inflight, i), <<>>)
    /\ UNCHANGED <<upVars, searchVars, ops>>

\* ------------------------------------------------ the upload of the page
UploadOutcomes == {"success", "failure", "throw"}

\* the upload handler's variables the page's upload leaves alone
upRest == <<upc, upReq, upExt, upExtract, upSent, upIdx, upNote, upResp,
            notesBefore, reqCount, lastRun>>

\* line 746: a file is chosen, or the choice is undone
ChooseFile(f) ==
    /\ ~crashed
    /\ activeTab # Null
    /\ f # file
    /\ Render([Current EXCEPT !.file = f], inflight, <<>>)
    /\ UNCHANGED <<srvVars, upVars, searchVars, ops>>

\* lines 276-291: handleUpload up to the fetch; the button of lines 757-759
\* is disabled without a file and while loading
HandleUpload ==
    /\ CanStart
    /\ activeTab # Null
    /\ file # NoFile
    /\ ~loading
    /\ Counted
    /\ IF activeUnit = Null
       THEN Render([Current EXCEPT
                       !.error = "Please select a file and a unit first"],
                   inflight, <<>>)
       ELSE Render([Current EXCEPT !.loading = TRUE, !.error = NoError],
                   inflight,
                   <<Request("upload", activeUnit,
                             [NoClosure EXCEPT !.activeUnit = activeUnit])>>)
    /\ UNCHANGED <<srvVars, upVars, searchVars>>

\* the failure branches keep the loading flag
AfterUploadFailure_StillLoading(h) == [h EXCEPT !.error = "Upload failed"]

\* lines 300-306: data.success is false, or the fetch or res.json() threw
AfterUploadFailure(h) ==
    [h EXCEPT !.error = "Upload failed", !.loading = FALSE]

\* lines 292-306: the reply of /api/upload reaches handleUpload; `created`
\* is whether the route's note POST created a note, which it can have done
\* only when it did not answer success=false
UploadReply(i, outcome, created) ==
    /\ i \in 1..Len(inflight)
    /\ inflight[i].kind = "upload"
    /\ outcome = "failure" => ~created
    /\ created => inflight[i].arg \in Ids(srvUnits)
    /\ storeNoteCount' = StoreAddNote(storeNoteCount, inflight[i].arg,
                                      IF created THEN "ok" ELSE "fail")
    /\ IF outcome = "success"
       THEN Render(Current, RemoveAt(inflight, i),
                   <<Request("uploadNotes", inflight[i].c.activeUnit,
                             NoClosure)>>)
       ELSE Render(AfterUploadFailure(Current), RemoveAt(inflight, i), <<>>)
    /\ UNCHANGED <<srvVars, upRest, searchVars, ops>>

\* lines 114-120 and 298-306: the fetchNotes that handleUpload awaits has
\* ended; the file is cleared and loading is over
AfterUploadNotes(h, unit, reply) ==
    [h EXCEPT !.notes = IF reply.status # "ok" THEN @
                        ELSE IF reply.count > 0
                        THEN [unit |-> unit, count |-> reply.count]
                        ELSE NoNotes,
              !.file = NoFile,
              !.loading = FALSE]

\* lines 297-306
UploadNotesReply(i, st) ==
    /\ Settles(i, "uploadNotes", st)
    /\ Render(AfterUploadNotes(Current, inflight[i].arg,
                               Reply(inflight[i], st, "")),
              RemoveAt(inflight, i), <<>>)
    /\ UNCHANGED <<upVars, searchVars, ops>>

Slots == 1..MaxInFlight

Next ==
    \/ \E t \in TabIds : SelectTab(t)
    \/ \E u \in UnitIds : SelectUnit(u)
    \/ RefreshUnits
    \/ \E name \in Texts : CreateTab(name)
    \/ \E name \in Texts : CreateUnit(name)
    \/ \E t \in TabIds, confirmed \in BOOLEAN : DeleteTab(t, confirmed)
    \/ \E u \in UnitIds, confirmed \in BOOLEAN : DeleteUnit(u, confirmed)
    \/ \E m \in Texts : HandleSend(m)
    \/ \E i \in Slots, st \in Statuses : FetchTabsReply(i, st)
    \/ \E i \in Slots, st \in Statuses : FetchUnitsReply(i, st)
    \/ \E i \in Slots, st \in Statuses : FetchNotesReply(i, st)
    \/ \E i \in Slots, st \in Statuses : CreateTabReply(i, st)
    \/ \E i \in Slots, st \in Statuses : CreateUnitReply(i, st)
    \/ \E i \in Slots, st \in Statuses : DeleteTabReply(i, st)
    \/ \E i \in Slots, st \in Statuses : DeleteUnitReply(i, st)
    \/ \E i \in Slots, st \in Statuses, answer \in Answers :
          ChatReply(i, st, answer)
    \/ \E f \in Files : ChooseFile(f)
    \/ HandleUpload
    \/ \E i \in Slots, outcome \in UploadOutcomes, created \in BOOLEAN :
          UploadReply(i, outcome, created)
    \/ \E i \in Slots, st \in Statuses : UploadNotesReply(i, st)

Spec == Init /\ [][Next]_vars

\* -------------------------------------------- the SearchNotes component
\* the snippet lists the search service answers with
SnippetLists == {<<>>, <<"s1">>, <<"s1", "s2">>}

\* part_000 line 23: the input changes
SetQuery(q) ==
    /\ q # query
    /\ query' = q
    /\ UNCHANGED <<results, searching, searchSent>>
    /\ UNCHANGED <<upVars, wsVars>>

\* part_000 lines 7-11: the form is submitted
HandleSearch ==
    /\ Len(searchSent) < MaxSearches
    /\ searching' = Append(searching, query)
    /\ searchSent' = Append(searchSent, query)
    /\ UNCHANGED <<query, results>>
    /\ UNCHANGED <<upVars, wsVars>>

\* part_000 lines 12-15: a search settles: 2xx with snippets, non-2xx, or
\* the fetch rejects, which nothing catches
SearchReply(i, st, snippets) ==
    /\ i \in 1..Len(searching)
    /\ st # "ok" => snippets = <<>>
    /\ results' = IF st = "ok" THEN snippets ELSE results
    /\ searching' = RemoveAt(searching, i)
    /\ UNCHANGED <<query, searchSent>>
    /\ UNCHANGED <<upVars, wsVars>>

SearchNext ==
    \/ \E q \in Texts : SetQuery(q)
    \/ HandleSearch
    \/ \E i \in 1..MaxSearches, st \in Statuses, snippets \in SnippetLists :
          SearchReply(i, st, snippets)

SearchSpec == Init /\ [][SearchNext]_vars

\* ------------------------------------------------- the ingestion claims
Kinds(sent) == {sent[i].kind : i \in 1..Len(sent)}
CountKind(sent, k) == Cardinality({i \in 1..Len(sent) : sent[i].kind = k})
Succeeded(o) == o \in {"ok", "okNonJson"}
ExtractionFailures == {"unreachable", "status", "unparsable"}
NoteRequestsSent == {upSent[i] : i \in {j \in 1..Len(upSent) : upSent[j].kind = "note"}}

\* C1: when extraction fails (backend unreachable, non-2xx extract reply, or
\* a body that does not parse) the handler has answered success=false, has
\* sent neither an indexing request nor a note-creation request, and the
\* unit's number of notes is what it was when the request arrived.
C1_ExtractionFailureAborts ==
    upExtract \in ExtractionFailures =>
        /\ upReq.hasFile /\ upReq.unit # NoUnit
        /\ upc = "done"
        /\ Len(upResp) = 1
        /\ upResp[1].success = FALSE
        /\ Kinds(upSent) \cap {"ingest", "note"} = {}
        /\ storeNoteCount[upReq.unit] = notesBefore[upReq.unit]

C1_Witness ==
    /\ upExtract = "status"
    /\ upc = "done"
    /\ CountKind(upSent, "extract") = 1

\* C2: when extraction succeeded with non-blank text and the indexing call
\* failed (non-2xx or thrown), the note-creation request has been sent with
\* the extraction method the extraction returned, and the handler's answer,
\* once sent, is success=true.
C2_IndexFailureStillPersists ==
    (upExtract = "ok" /\ upIdx \in {"fail", "throw"}) =>
        /\ Trim(upExt.text) # <<>>
        /\ \E r \in NoteRequestsSent :
              r.unit = upReq.unit /\ r.extraction_method = upExt.method
        /\ \A i \in 1..Len(upResp) : upResp[i].success
        /\ upc = "done" => Len(upResp) = 1

C2_Witness ==
    /\ upc = "done"
    /\ upExtract = "ok"
    /\ upIdx = "throw"
    /\ upExt.method = "text"
    /\ upResp[1].success

\* C3: the answer has success=true exactly when the extraction stage
\* succeeded; a failed note-creation call leaves the answer at 200/success.
C3_VerdictIsExtraction ==
    /\ \A i \in 1..Len(upResp) : upResp[i].success <=> upExtract = "ok"
    /\ (upc = "done" /\ upExtract = "ok") => Len(upResp) = 1
    /\ upNote \in {"fail", "throw"} =>
          (Len(upResp) = 1 /\ upResp[1].success /\ upResp[1].status = 200)

C3_Witness ==
    /\ upc = "done"
    /\ upExtract = "ok"
    /\ upNote = "fail"
    /\ upResp[1].success

\* C4: after a successful extraction, once the indexing stage has ended
\* (succeeded, non-2xx, thrown, or skipped for blank text) exactly one
\* note-creation request has been sent, and it is for the upload's unit.
C4_ExactlyOneNoteRequest ==
    (upExtract = "ok" /\ upIdx # "none") =>
        /\ CountKind(upSent, "note") = 1
        /\ \A r \in NoteRequestsSent : r.unit = upReq.unit

C4_Witness ==
    /\ upc = "done"
    /\ upExtract = "ok"
    /\ upIdx = "skipped"
    /\ CountKind(upSent, "note") = 1

\* C5: two successful ingests of the same request and extraction that differ
\* only in whether indexing succeeded, or only in whether note creation
\* succeeded, are answered with different results.
C5_OutcomesReported ==
    (/\ upc = "done" /\ upExtract = "ok" /\ lastRun.extract = "ok"
     /\ upReq = lastRun.req /\ upExt = lastRun.ext) =>
        /\ (/\ Succeeded(upIdx) # Succeeded(lastRun.idx)
            /\ upIdx # "skipped" /\ lastRun.idx # "skipped"
            /\ upNote = lastRun.note) => upResp # lastRun.resp
        /\ (/\ Succeeded(upNote) # Succeeded(lastRun.note)
            /\ upIdx = lastRun.idx) => upResp # lastRun.resp

\* ------------------------------------------------- the workspace claims
Quiet == inflight = <<>>

\* C6: whenever no request is in flight, activeUnit is null or is the id of a
\* unit of the loaded unit list whose tab is activeTab.
C6_ActiveUnitInActiveTab ==
    Quiet =>
        \/ activeUnit = Null
        \/ \E k \in 1..Len(units) :
              units[k].id = activeUnit /\ units[k].tab = activeTab

\* C7: whenever no request is in flight, activeTab is null or is the id of a
\* tab of the tab list.
C7_ActiveTabInTabs ==
    Quiet => (activeTab = Null \/ activeTab \in Elems(tabs))

\* C8: every key of the transcript map is the id of a unit that exists.
C8_TranscriptsOfExistingUnits ==
    \A u \in DOMAIN chatHistory : u \in Ids(srvUnits)

\* C9: a deleteTab(t) that succeeds leaves no transcript for any unit that
\* belonged to t.
C9_DeleteTabDropsTranscripts ==
    [][\A i \in Slots :
          DeleteTabReply(i, "ok") =>
              \A k \in 1..Len(srvUnits) :
                  srvUnits[k].tab = inflight[i].arg =>
                      srvUnits[k].id \notin DOMAIN chatHistory']_vars

\* the transcript of request r's unit is what r's handleSend left: the
\* transcript it read, followed by its user line
Untouched(r) ==
    /\ r.arg \in DOMAIN chatHistory
    /\ chatHistory[r.arg] = Append(r.c.chat, UserLine(r.c.msg))

\* C10: when the remote call of a send fails (non-2xx or thrown) and the
\* unit's transcript is as the send left it, the reply puts the transcript
\* back to what it was before the send and sets an error message.
C10_FailedSendRollsBack ==
    [][\A i \in Slots, st \in {"fail", "throw"} :
          (ChatReply(i, st, "") /\ Untouched(inflight[i])) =>
              /\ inflight[i].arg \in DOMAIN chatHistory'
              /\ chatHistory'[inflight[i].arg] = inflight[i].c.chat
              /\ error' # NoError]_vars

\* a send failed on a unit that had an exchange before: the exchange is all
\* that is left
C10_Witness ==
    /\ error = "Chat failed"
    /\ Quiet
    /\ activeUnit \in DOMAIN chatHistory
    /\ chatHistory[activeUnit] = <<UserLine(<<"a">>), AiLine("ans")>>

\* the units a send is in flight for
SendingUnits ==
    {inflight[i].arg : i \in {j \in 1..Len(inflight) : inflight[j].kind = "chat"}}

IsUserLine(line) == line[1] = "You"
IsAiLine(line) == line[1] = "AI"

\* every user line of the transcript is immediately followed by an
\* assistant line
Answered(lines) ==
    \A k \in 1..Len(lines) :
        IsUserLine(lines[k]) => (k < Len(lines) /\ IsAiLine(lines[k + 1]))

\* C11: in every state where no send is in flight for a unit, every user
\* line of that unit's transcript is immediately followed by an assistant
\* line, also after two sends on the unit were in flight at once and one of
\* them failed.
C11_QuestionsAnswered ==
    \A u \in DOMAIN chatHistory : u \notin SendingUnits => Answered(chatHistory[u])


\* the sends in flight for unit u
SendsFor(u) ==
    {i \in 1..Len(inflight) : inflight[i].kind = "chat" /\ inflight[i].arg = u}

C13_SelectKeepsTranscripts ==
    [][\A u \in UnitIds :
          SelectUnit(u) =>
              /\ DOMAIN chatHistory' = DOMAIN chatHistory \cup {u}
              /\ \A k \in DOMAIN chatHistory : chatHistory'[k] = chatHistory[k]
              /\ u \notin DOMAIN chatHistory => chatHistory'[u] = <<>>]_vars

\* unit 1 got an exchange, unit 2 was selected and then unit 1 again, with
\* no unit created: unit 1 still has the exchange
C13_Witness ==
    /\ ops = 3
    /\ nextUnit = Len(InitUnits) + 1
    /\ activeUnit = 1
    /\ 2 \in DOMAIN chatHistory
    /\ chatHistory[2] = <<>>
    /\ chatHistory[1] = <<UserLine(<<"a">>), AiLine("ans")>>

\* C14: the body a send posts names as documentCategory the unit that was
\* active when the send was started, and the body the chat route posts to
\* the question-answering service has that unit as namespace and the
\* send's text as question.
C14_NamespaceIsActiveUnit ==
    [][/\ \A m \in Texts :
             (HandleSend(m) /\ activeUnit # Null /\ Trim(m) # <<>>) =>
                 ChatBody(inflight'[Len(inflight) + 1]) =
                     [message |-> m, documentCategory |-> activeUnit]
       /\ \A i \in Slots, st \in {"ok", "fail"}, answer \in Answers :
             ChatReply(i, st, answer) =>
                 /\ asked'.namespace = inflight[i].c.activeUnit
                 /\ asked'.namespace # Null
                 /\ asked'.question = inflight[i].c.msg]_vars

\* a question of unit 1 reached the service while unit 2 was the active unit
C14_Witness ==
    /\ asked.namespace = 1
    /\ asked.question = <<"a">>
    /\ activeUnit = 2

\* C15: when the remote call of deleteUnit fails, by a non-2xx reply or by a
\* network error, the unit list is left as it is and a reload of the active
\* tab's unit list is started.
C15_FailedDeleteUnitReloads ==
    [][\A i \in Slots, st \in {"fail", "throw"} :
          (DeleteUnitReply(i, st) /\ activeTab # Null) =>
              /\ units' = units
              /\ \E k \in Len(inflight)..Len(inflight') :
                    /\ inflight'[k].kind = "fetchUnits"
                    /\ inflight'[k].arg = activeTab]_vars

\* C16: a deleteUnit(u) that succeeds leaves u out of the unit list and
\* without transcript; if u was the active unit when deleteUnit was called,
\* activeUnit is the first unit left in the list, or null with an empty note
\* list when none is left.
C16_DeleteUnitSucceeds ==
    [][\A i \in Slots :
          DeleteUnitReply(i, "ok") =>
              LET u == inflight[i].arg
                  rest == WithoutId(units, u)
              IN  /\ units' = rest
                  /\ u \notin DOMAIN chatHistory'
                  /\ (inflight[i].c.activeUnit = u /\ Len(rest) > 0) =>
                        activeUnit' = rest[1].id
                  /\ (inflight[i].c.activeUnit = u /\ Len(rest) = 0) =>
                        activeUnit' = Null /\ notes' = NoNotes]_vars

\* C17: a deleteTab(t) that succeeds, t being the active tab when deleteTab
\* was called, leaves t out of the tab list and makes the first tab left the
\* active tab; when no tab is left, activeTab and activeUnit are null and
\* the unit list and the note list are empty.
C17_DeleteActiveTabSucceeds ==
    [][\A i \in Slots :
          (DeleteTabReply(i, "ok") /\ inflight[i].c.activeTab = inflight[i].arg) =>
              LET rest == Without(tabs, inflight[i].arg)
              IN  /\ tabs' = rest
                  /\ Len(rest) > 0 => activeTab' = rest[1]
                  /\ Len(rest) = 0 =>
                        /\ activeTab' = Null
                        /\ activeUnit' = Null
                        /\ units' = <<>>
                        /\ notes' = NoNotes]_vars

Hierarchy == <<tabs, units, activeTab, activeUnit, chatHistory>>

\* C19: createTab with a blank name, createUnit with a blank name or with no
\* active tab, and a send with blank text or with no active unit start no
\* request and leave the tab list, the unit list, activeTab, activeUnit and
\* the transcripts as they are.
C19_ValidationStaysLocal ==
    [][/\ \A name \in Texts :
             (CreateTab(name) /\ Trim(name) = <<>>) =>
                 inflight' = inflight /\ UNCHANGED Hierarchy
       /\ \A name \in Texts :
             (CreateUnit(name) /\ (Trim(name) = <<>> \/ activeTab = Null)) =>
                 inflight' = inflight /\ UNCHANGED Hierarchy
       /\ \A m \in Texts :
             (HandleSend(m) /\ (Trim(m) = <<>> \/ activeUnit = Null)) =>
                 inflight' = inflight /\ UNCHANGED Hierarchy]_vars

\* a send with no active unit was turned down: nothing is in flight and
\* nothing was asked of the service
C19_Witness ==
    /\ error = "Please select a unit first"
    /\ activeUnit = Null
    /\ activeTab # Null
    /\ Quiet
    /\ asked = NoQuestion

\* C20: createUnit with a name and an active tab sends a create request that
\* names the active tab as the unit's tab; when the request succeeds the
\* reply appends the created unit to the unit list, makes it the active unit
\* and gives it an empty transcript.
C20_CreateUnitSucceeds ==
    [][/\ \A name \in Texts :
             (CreateUnit(name) /\ Trim(name) # <<>> /\ activeTab # Null) =>
                 /\ Len(inflight') = Len(inflight) + 1
                 /\ inflight'[Len(inflight) + 1].kind = "createUnit"
                 /\ inflight'[Len(inflight) + 1].arg = activeTab
       /\ \A i \in Slots :
             CreateUnitReply(i, "ok") =>
                 LET newUnit == [id |-> nextUnit, tab |-> inflight[i].arg]
                 IN  /\ srvUnits' = Append(srvUnits, newUnit)
                     /\ units' = Append(units, newUnit)
                     /\ activeUnit' = newUnit.id
                     /\ newUnit.id \notin DOMAIN chatHistory
                     /\ chatHistory' = Put(chatHistory, newUnit.id, <<>>)]_vars

\* a unit was created under tab 1: it is the last of the list, the active
\* unit, and has an empty transcript
C20_Witness ==
    /\ ops = 1
    /\ Quiet
    /\ activeTab = 1
    /\ Len(units) = 3
    /\ units[3] = [id |-> Len(InitUnits) + 1, tab |-> 1]
    /\ activeUnit = Len(InitUnits) + 1
    /\ chatHistory[activeUnit] = <<>>

\* C21: a createTab that succeeds appends the created tab to the tab list,
\* makes it the active tab and leaves the unit list empty, no unit active
\* and the note list empty.
C21_CreateTabSucceeds ==
    [][\A i \in Slots :
          CreateTabReply(i, "ok") =>
              /\ srvTabs' = Append(srvTabs, nextTab)
              /\ tabs' = Append(tabs, nextTab)
              /\ activeTab' = nextTab
              /\ units' = <<>>
              /\ activeUnit' = Null
              /\ notes' = NoNotes]_vars

\* a tab was created while unit 1 of tab 1 was active: the new tab is the
\* last of the list and active, and no unit is listed or active
C21_Witness ==
    /\ ops = 1
    /\ tabs = <<1, 2, 3>>
    /\ activeTab = 3
    /\ units = <<>>
    /\ activeUnit = Null
    /\ notes = NoNotes
    /\ 1 \in DOMAIN chatHistory

\* C22: when the remote call of createTab, createUnit or deleteTab fails, by
\* a non-2xx reply or a thrown error, the tab list, the unit list, the note
\* list, activeTab, activeUnit and the transcripts are left as they are.
C22_FailedCallChangesNothing ==
    [][\A i \in Slots, st \in {"fail", "throw"} :
          (CreateTabReply(i, st) \/ CreateUnitReply(i, st) \/ DeleteTabReply(i, st)) =>
              /\ UNCHANGED <<tabs, units, notes, activeTab, activeUnit, chatHistory>>
              /\ inflight' = RemoveAt(inflight, i)]_vars

\* the first tab list never arrived and the one thing the user did, a
\* createTab, has failed: the store and the page are as they were
C22_Witness ==
    /\ ops = 1
    /\ Quiet
    /\ ~crashed
    /\ tabs = <<>>
    /\ activeTab = Null
    /\ srvTabs = InitTabs
    /\ nextTab = Len(InitTabs) + 1

\* ------------------------------------------- the ingestion claims, again
IngestRequestsSent ==
    {upSent[i] : i \in {j \in 1..Len(upSent) : upSent[j].kind = "ingest"}}

\* C23: after a successful extraction one indexing request has been sent
\* when the extracted text is non-empty after trimming and none when it is
\* empty; the request carries the whole extracted text, the upload's unit
\* as category, chunk size 1000 and chunk overlap 200.
C23_IndexingRequest ==
    upExtract = "ok" =>
        /\ CountKind(upSent, "ingest") = (IF Trim(upExt.text) # <<>> THEN 1 ELSE 0)
        /\ \A r \in IngestRequestsSent :
              /\ r.text = upExt.text
              /\ r.category = upReq.unit
              /\ r.chunk_size = 1000
              /\ r.chunk_overlap = 200

\* a text with leading white space was extracted and sent to be indexed
C23_Witness ==
    /\ upExtract = "ok"
    /\ upExt.text = PaddedText
    /\ \E r \in IngestRequestsSent : r.text = PaddedText /\ r.category = 1

\* the first n characters of text, or all of it when it has fewer
FirstChars(text, n) == [i \in 1..(IF Len(text) < n THEN Len(text) ELSE n) |-> text[i]]

\* C24: every note-creation request has the upload's unit, as title the
\* original filename or "Uploaded Document" when there is none, as content
\* the whole extracted text, as summary the first 200 characters of the
\* text followed by "...", also for a shorter or empty text, as file the
\* original filename or "document.pdf", and as extraction method the
\* method of the extraction stage.
C24_NoteRequest ==
    \A r \in NoteRequestsSent :
        /\ upExtract = "ok"
        /\ r.unit = upReq.unit
        /\ r.title = (IF upReq.filename # NoName THEN upReq.filename
                      ELSE "Uploaded Document")
        /\ r.content = upExt.text
        /\ r.summary = FirstChars(upExt.text, 200) \o <<".", ".", ".">>
        /\ r.file = (IF upReq.filename # NoName THEN upReq.filename
                     ELSE "document.pdf")
        /\ r.extraction_method = upExt.method

\* a note was requested for a text of 201 characters uploaded without a
\* filename: the summary has 200 characters and the three dots
C24_Witness ==
    /\ upc = "done"
    /\ upReq.filename = NoName
    /\ upExt.text = LongText
    /\ \E r \in NoteRequestsSent :
          Len(r.summary) = 203 /\ r.title = "Uploaded Document"

\* C25: the handler answers success=false in each extraction failure case:
\* the extraction service is unreachable, it answers a non-2xx status, its
\* body is not JSON, or its JSON body carries no text field.
C25_ExtractionFailuresReported ==
    (/\ upc = "done"
     /\ \/ upExtract \in ExtractionFailures
        \/ upExtract = "ok" /\ ~upExt.hasText) =>
        /\ Len(upResp) = 1
        /\ ~upResp[1].success

\* ------------------------------------------------------ the search claim
\* C26: a search with an empty query sends no request to the search service
\* and leaves the displayed results as they are.
C26_EmptyQueryRejected ==
    [][(HandleSearch /\ query = <<>>) =>
           /\ searchSent' = searchSent
           /\ searching' = searching
           /\ results' = results]_vars

\* C27: a backend reply whose content type is not JSON is treated as an
\* error by the component that reads it and its body is not parsed as
\* JSON; for the upload handler: an extraction it has taken as successful,
\* having parsed the body, had a JSON content type.
C27_NonJsonReplyIsError ==
    upExtract = "ok" => upExt.jsonType


\* C28: no remote call is retried automatically: one run of the upload
\* handler sends at most one extract, one ingest and one note request,
\* whatever their outcomes, and on the page a step sends at most one chat,
\* create or delete request, and only a step that handles a user event
\* sends one, never a step that handles a reply.
RemoteKinds == {"chat", "createTab", "createUnit", "deleteTab", "deleteUnit"}
UploadKinds == {"probe", "extract", "ingest", "note"}
RemoteCount(reqs) ==
    Cardinality({i \in 1..Len(reqs) : reqs[i].kind \in RemoteKinds})
C29_LoadUnitsReplyApplied ==
    [][\A i \in Slots, st \in Statuses :
          FetchUnitsReply(i, st) =>
              LET data == UnitsOfTab(inflight[i].arg)
              IN  IF st = "ok"
                  THEN /\ units' = data
                       /\ (Len(data) > 0 /\ activeUnit = Null) =>
                             activeUnit' = data[1].id
                       /\ Len(data) = 0 =>
                             activeUnit' = Null /\ notes' = NoNotes
                  ELSE UNCHANGED <<units, activeTab, activeUnit>>]_vars

\* C30: selecting a unit u makes u the active unit, empties the note list,
\* starts a reload of the notes of u and nothing else, and creates an empty
\* transcript for u if and only if u has none; a step that clears the
\* selection leaves the note list empty and starts no reload of notes.
C30_ActiveUnitEffects ==
    [][/\ \A u \in UnitIds :
             SelectUnit(u) =>
                 /\ activeUnit' = u
                 /\ notes' = NoNotes
                 /\ inflight' = Append(inflight, FetchNotesReq(u))
                 /\ u \in DOMAIN chatHistory'
                 /\ chatHistory' # chatHistory <=> u \notin DOMAIN chatHistory
                 /\ u \notin DOMAIN chatHistory => chatHistory'[u] = <<>>
       /\ (activeUnit # Null /\ activeUnit' = Null) =>
             /\ notes' = NoNotes
             /\ CountKind(inflight', "fetchNotes")
                    <= CountKind(inflight, "fetchNotes")]_vars
\* unit 2 has been selected for the first time, unit 1 being active before:
\* its notes are being reloaded and it has an empty transcript
C30_Witness ==
    /\ ops = 1
    /\ activeUnit = 2
    /\ notes = NoNotes
    /\ Len(inflight) > 0
    /\ inflight[Len(inflight)] = FetchNotesReq(2)
    /\ DOMAIN chatHistory = {1, 2}
    /\ chatHistory[2] = <<>>

\* ------------------------------------------------ the order of the stages
IndexingEnded == upIdx # "none"
NoteCreationEnded == upNote # "none"

\* C31: in every run of the upload handler the extraction reply has been
\* received, and taken as a success, before the indexing request is sent; the
\* indexing attempt has ended, by success, failure or being skipped, before
\* the note request is sent; and once a note request has been sent the
\* caller is answered only after the note-creation attempt has ended.
C31_StagesInOrder ==
    /\ CountKind(upSent, "ingest") > 0 => upExtract = "ok"
    /\ CountKind(upSent, "note") > 0 => upExtract = "ok" /\ IndexingEnded
    /\ upc = "indexing" => ~NoteCreationEnded /\ upResp = <<>>
    /\ upc = "persisting" => IndexingEnded /\ upResp = <<>>
    /\ (upResp # <<>> /\ upExtract = "ok") =>
          /\ NoteCreationEnded
          /\ CountKind(upSent, "note") = 1
\* a run with a failed indexing attempt and a failed note-creation attempt
\* has answered
C31_Witness ==
    /\ upc = "done"
    /\ upIdx = "fail"
    /\ upNote = "throw"
    /\ Len(upResp) = 1
    /\ <<upSent[3].kind, upSent[4].kind>> = <<"ingest", "note">>

\* ------------------------------------------------- the upload of the page
\* C32: when the upload reply has success=true, whether or not the note was
\* created, handleUpload sets no error and starts a reload of the notes of
\* the unit uploaded to, and nothing else; when that reload has ended the
\* selected file is cleared; when the reply has success=false or the request
\* throws, an error is set and no reload is started; and whenever
\* handleUpload has finished the loading flag is false.
C32_UploadReplyHandled ==
    [][\A i \in Slots :
          /\ \A created \in BOOLEAN :
                UploadReply(i, "success", created) =>
                    /\ error' = error
                    /\ inflight' = Append(RemoveAt(inflight, i),
                                          Request("uploadNotes",
                                                  inflight[i].arg, NoClosure))
          /\ \A st \in Statuses :
                UploadNotesReply(i, st) =>
                    /\ file' = NoFile
                    /\ loading' = FALSE
                    /\ error' = error
          /\ \A outcome \in {"failure", "throw"}, created \in BOOLEAN :
                UploadReply(i, outcome, created) =>
                    /\ error' # NoError
                    /\ inflight' = RemoveAt(inflight, i)
                    /\ notes' = notes
                    /\ loading' = FALSE]_vars
\* the one upload, to unit 1, was answered success=true though no note was
\* created: no error is shown and the notes of unit 1 are being reloaded
C32_Witness ==
    /\ ops = 1
    /\ storeNoteCount = InitNoteCount
    /\ error = NoError
    /\ loading
    /\ inflight = <<Request("uploadNotes", 1, NoClosure)>>

\* C33: whenever no request is in flight, every unit of the loaded unit
\* list belongs to the active tab, and the list is empty when no tab is
\* active.
C33_UnitsOfActiveTab ==
    Quiet =>
        /\ \A k \in 1..Len(units) : units[k].tab = activeTab
        /\ activeTab = Null => units = <<>>

\* C34: whenever no request is in flight, the note list holds only notes of
\* the active unit, and it is empty when no unit is active.
C34_NotesOfActiveUnit ==
    Quiet =>
        /\ notes # NoNotes => notes.unit = activeUnit
        /\ activeUnit = Null => notes = NoNotes

\* C35: the reply of a send changes the transcript of the unit that was
\* active when the send was invoked, by the assistant line on success and by
\* the removal of the last line on failure, and leaves the transcript of
\* every other unit as it is, whichever unit is active when it arrives.
C35_ReplyGoesToSendingUnit ==
    [][\A i \in Slots, st \in Statuses, answer \in Answers :
          ChatReply(i, st, answer) =>
              LET u == inflight[i].arg
              IN  /\ u = inflight[i].c.activeUnit
                  /\ DOMAIN chatHistory' \ {u} = DOMAIN chatHistory \ {u}
                  /\ \A k \in DOMAIN chatHistory \ {u} :
                        chatHistory'[k] = chatHistory[k]
                  /\ u \in DOMAIN chatHistory'
                  /\ chatHistory'[u] =
                        IF st = "ok"
                        THEN WithAnswer(CurrentChat(chatHistory, u), answer)
                        ELSE Rollback(CurrentChat(chatHistory, u))]_vars

\* --------------------------------------------- the upload handler, again
\* the request is not a POST, or its form was parsed and has no file or no
\* unit id
Invalid(req) ==
    \/ req.method # "POST"
    \/ /\ ~req.parseErr
       /\ ~req.hasFile \/ req.unit = NoUnit

\* C36: an upload request that is not a POST, or whose form has no file or
\* no unit id, is answered with success=false and status 405 or 400, and no
\* request is sent to the backend for it, neither before nor after the
\* answer.
C36_InvalidUploadRejected ==
    /\ (upc \in {"reading", "probing", "extracting", "indexing", "persisting"}
          \/ upSent # <<>>)
         => ~Invalid(upReq)
    /\ (upc = "done" /\ Invalid(upReq)) =>
          /\ upSent = <<>>
          /\ Len(upResp) = 1
          /\ ~upResp[1].success
          /\ upResp[1].status = (IF upReq.method # "POST" THEN 405 ELSE 400)
\* a POST with a file and no unit id has been answered
C36_Witness ==
    /\ upc = "done"
    /\ upReq.method = "POST"
    /\ upReq.hasFile
    /\ upReq.unit = NoUnit
    /\ ~upReq.parseErr
    /\ upResp = <<FailResponse(400, "Unit ID is required")>>

\* the handler is serving a request it has not answered
Serving == upc \notin {"idle", "done"}

\* C37: every upload request gets exactly one response: while the handler
\* is serving a request no response has been sent, once it is done exactly
\* one has been sent, never two; and, every backend call settling, a
\* request that is being served is eventually answered.
C37_ExactlyOneResponse ==
    /\ [](/\ Len(upResp) <= 1
          /\ Serving => upResp = <<>>
          /\ upc = "done" => Len(upResp) = 1)
    /\ (Serving ~> (upc = "done" /\ Len(upResp) = 1))
\* two requests have been answered, the second after its connectivity probe
\* failed, each with one response
C37_Witness ==
    /\ upc = "done"
    /\ reqCount = 2
    /\ Len(lastRun.resp) = 1
    /\ upExtract = "unreachable"
    /\ Kinds(upSent) = {"probe"}
    /\ upResp = <<FailResponse(500, "Cannot connect to backend")>>


=============================================================================
